---- MODULE Spec2Model ----
(***************************************************************************)
(* Travel Buddy live scraper (Express server): the /api/operators handler, *)
(* its one-hour in-memory cache, the paginated walk over the BTB listing   *)
(* (scrapeAllPages), the table extractor and the field helpers.            *)
(*                                                                         *)
(* Strings are TLA+ strings; TLC evaluates Len, SubSeq and \o on them.     *)
(* Math.random() is an input: a value r in [0,1) is written as the integer *)
(* 1000*r truncated (thousandths).                                         *)
(***************************************************************************)
EXTENDS Integers, Sequences, FiniteSets, TLC

\* ---------------------------------------------------------------------
\* JavaScript string primitives used by the scraper
\* ---------------------------------------------------------------------

UpperChars == "ABCDEFGHIJKLMNOPQRSTUVWXYZ"

LowerChars == "abcdefghijklmnopqrstuvwxyz"

Digits == "0123456789"

CharAt(s, i) == SubSeq(s, i, i)

\* String.prototype.includes
Includes(s, sub) ==
    \E i \in 1..(Len(s) - Len(sub) + 1) : SubSeq(s, i, i + Len(sub) - 1) = sub

\* String.prototype.indexOf with a start position, 1-based; 0 when absent
IndexFrom(s, sub, from) ==
    LET hits == {i \in from..(Len(s) - Len(sub) + 1) : SubSeq(s, i, i + Len(sub) - 1) = sub}
    IN  IF hits = {} THEN 0 ELSE CHOOSE i \in hits : \A j \in hits : i <= j

LowerChar(c) ==
    LET k == IndexFrom(UpperChars, c, 1)
    IN  IF k = 0 THEN c ELSE CharAt(LowerChars, k)

RECURSIVE LowerFrom(_, _)
LowerFrom(s, i) ==
    IF i > Len(s) THEN "" ELSE LowerChar(CharAt(s, i)) \o LowerFrom(s, i + 1)

\* String.prototype.toLowerCase
toLowerCase(s) == LowerFrom(s, 1)

\* String.prototype.trim (the mock cells use the space as their only white space)
trim(s) ==
    LET keep == {i \in 1..Len(s) : CharAt(s, i) # " "}
    IN  IF keep = {} THEN ""
        ELSE SubSeq(s, CHOOSE i \in keep : \A j \in keep : i <= j,
                       CHOOSE i \in keep : \A j \in keep : i >= j)

RECURSIVE AlnumFrom(_, _)
AlnumFrom(s, i) ==
    IF i > Len(s) THEN ""
    ELSE (IF Includes(LowerChars, CharAt(s, i)) \/ Includes(Digits, CharAt(s, i))
          THEN CharAt(s, i) ELSE "") \o AlnumFrom(s, i + 1)

\* s.replace(/[^a-z0-9]/g, '')
StripNonAlnum(s) == AlnumFrom(s, 1)

\* s.slice(0, n)
SliceTo(s, n) == SubSeq(s, 1, IF Len(s) < n THEN Len(s) ELSE n)

\* the characters a..b of s (1-based, inclusive), cut at the end of s
Sub(s, a, b) ==
    IF a > Len(s) \/ b < a THEN "" ELSE SubSeq(s, a, IF b > Len(s) THEN Len(s) ELSE b)

\* ---------------------------------------------------------------------
\* Field helpers
\* ---------------------------------------------------------------------

ID_PREFIX_LEN == 10

\* generateId(name); r is the value of Math.random() in thousandths
generateId(name, r) ==
    SliceTo(StripNonAlnum(toLowerCase(name)), ID_PREFIX_LEN) \o ToString(r)

\* variant: the Belize settlements are tested before the other districts
extractDistrictBelizeFirst(address) ==
    IF address = "" THEN "Belize"
    ELSE LET addr == toLowerCase(address) IN
      IF Includes(addr, "san pedro") \/ Includes(addr, "ambergris")
         \/ Includes(addr, "caye caulker") \/ Includes(addr, "belize city")
         \/ Includes(addr, "ladyville") THEN "Belize"
      ELSE IF Includes(addr, "cayo") \/ Includes(addr, "san ignacio") \/ Includes(addr, "santa elena")
         \/ Includes(addr, "benque") \/ Includes(addr, "bullet tree") THEN "Cayo"
      ELSE IF Includes(addr, "stann") \/ Includes(addr, "placencia") \/ Includes(addr, "dangriga")
         \/ Includes(addr, "hopkins") THEN "Stann Creek"
      ELSE IF Includes(addr, "corozal") THEN "Corozal"
      ELSE IF Includes(addr, "orange walk") THEN "Orange Walk"
      ELSE IF Includes(addr, "toledo") \/ Includes(addr, "punta gorda") THEN "Toledo"
      ELSE "Belize"

extractDistrict(address) ==
    IF address = "" THEN "Belize"
    ELSE LET addr == toLowerCase(address) IN
      IF Includes(addr, "cayo") \/ Includes(addr, "san ignacio") \/ Includes(addr, "santa elena")
         \/ Includes(addr, "benque") \/ Includes(addr, "bullet tree") THEN "Cayo"
      ELSE IF Includes(addr, "stann") \/ Includes(addr, "placencia") \/ Includes(addr, "dangriga")
         \/ Includes(addr, "hopkins") THEN "Stann Creek"
      ELSE IF Includes(addr, "corozal") THEN "Corozal"
      ELSE IF Includes(addr, "orange walk") THEN "Orange Walk"
      ELSE IF Includes(addr, "toledo") \/ Includes(addr, "punta gorda") THEN "Toledo"
      ELSE IF Includes(addr, "san pedro") \/ Includes(addr, "ambergris")
         \/ Includes(addr, "caye caulker") \/ Includes(addr, "belize city")
         \/ Includes(addr, "ladyville") THEN "Belize"
      ELSE "Belize"

locations ==
    <<"San Pedro", "Caye Caulker", "San Ignacio", "Santa Elena", "Benque", "Placencia",
      "Hopkins", "Dangriga", "Belize City", "Ladyville", "Corozal", "Orange Walk",
      "Punta Gorda">>

\* variant: the address is compared without being lower-cased
extractLocationCaseSensitive(address) ==
    IF address = "" THEN "Belize"
    ELSE LET hits == {k \in 1..Len(locations) :
                        Includes(address, toLowerCase(locations[k]))}
         IN  IF hits = {} THEN "Belize"
             ELSE locations[CHOOSE k \in hits : \A j \in hits : k <= j]

extractLocation(address) ==
    IF address = "" THEN "Belize"
    ELSE LET addr == toLowerCase(address)
             hits == {k \in 1..Len(locations) : Includes(addr, toLowerCase(locations[k]))}
         IN  IF hits = {} THEN "Belize"
             ELSE locations[CHOOSE k \in hits : \A j \in hits : k <= j]

\* variant: the resort keywords are tested first
categorizeOperatorResortFirst(name) ==
    IF name = "" THEN "General"
    ELSE LET n == toLowerCase(name) IN
      IF Includes(n, "resort") \/ Includes(n, "hotel") \/ Includes(n, "lodge")
         THEN "Resort"
      ELSE IF Includes(n, "dive") \/ Includes(n, "scuba") \/ Includes(n, "sea")
         \/ Includes(n, "snork") THEN "Diving"
      ELSE IF Includes(n, "maya") \/ Includes(n, "ruin") \/ Includes(n, "archaeolog")
         THEN "Mayan Tours"
      ELSE IF Includes(n, "adventure") \/ Includes(n, "cave") \/ Includes(n, "zip")
         \/ Includes(n, "jungle") THEN "Adventure"
      ELSE IF Includes(n, "fish") THEN "Fishing"
      ELSE IF Includes(n, "rent") \/ Includes(n, "golf cart") THEN "Rentals"
      ELSE "General"

categorizeOperator(name) ==
    IF name = "" THEN "General"
    ELSE LET n == toLowerCase(name) IN
      IF Includes(n, "dive") \/ Includes(n, "scuba") \/ Includes(n, "sea")
         \/ Includes(n, "snork") THEN "Diving"
      ELSE IF Includes(n, "maya") \/ Includes(n, "ruin") \/ Includes(n, "archaeolog")
         THEN "Mayan Tours"
      ELSE IF Includes(n, "adventure") \/ Includes(n, "cave") \/ Includes(n, "zip")
         \/ Includes(n, "jungle") THEN "Adventure"
      ELSE IF Includes(n, "fish") THEN "Fishing"
      ELSE IF Includes(n, "resort") \/ Includes(n, "hotel") \/ Includes(n, "lodge")
         THEN "Resort"
      ELSE IF Includes(n, "rent") \/ Includes(n, "golf cart") THEN "Rentals"
      ELSE "General"

\* variant: the dive and adventure keywords are tested first
estimatePriceRangeDiveFirst(name) ==
    LET n == toLowerCase(name) IN
      IF Includes(n, "dive") \/ Includes(n, "adventure") THEN "$$"
      ELSE IF Includes(n, "luxury") \/ Includes(n, "resort") \/ Includes(n, "heli")
         \/ Includes(n, "private") THEN "$$$"
      ELSE "$"

estimatePriceRange(name) ==
    LET n == toLowerCase(name) IN
      IF Includes(n, "luxury") \/ Includes(n, "resort") \/ Includes(n, "heli")
         \/ Includes(n, "private") THEN "$$$"
      ELSE IF Includes(n, "dive") \/ Includes(n, "adventure") THEN "$$"
      ELSE "$"

\* variant: the range starts at 4.0 and is one wide
generateRatingFromFour(r) ==
    LET tenths == (40000 + 10 * r + 500) \div 1000
    IN  ToString(tenths \div 10) \o "." \o ToString(tenths % 10)

\* generateRating(): (4.2 + r * 0.8).toFixed(1), r in thousandths; the
\* result is computed in tenths and rounded to the nearest tenth
generateRating(r) ==
    LET tenths == (42000 + 8 * r + 500) \div 1000
    IN  ToString(tenths \div 10) \o "." \o ToString(tenths % 10)

\* ---------------------------------------------------------------------
\* Page extractor
\* ---------------------------------------------------------------------

MIN_CELLS == 4

\* variant: a missing cell gives the text 'undefined'
CellTextUndefined(tds, i) == IF i <= Len(tds) THEN trim(tds[i]) ELSE "undefined"

\* $(tds[i]).text().trim(); a missing cell gives the empty string
CellText(tds, i) == IF i <= Len(tds) THEN trim(tds[i]) ELSE ""

\* variant: a row with an empty first cell is taken as data
IsDataRowAnyName(tds) ==
    /\ ~(Len(tds) < MIN_CELLS)
    /\ LET name == CellText(tds, 1)
       IN  ~(name = "Name" \/ Includes(name, "Company Name"))

\* variant: a row needs more than four cells
IsDataRowFiveCells(tds) ==
    /\ ~(Len(tds) <= MIN_CELLS)
    /\ LET name == CellText(tds, 1)
       IN  ~(name = "" \/ name = "Name" \/ Includes(name, "Company Name"))

\* the test of each row: does it produce a record
IsDataRow(tds) ==
    /\ ~(Len(tds) < MIN_CELLS)
    /\ LET name == CellText(tds, 1)
       IN  ~(name = "" \/ name = "Name" \/ Includes(name, "Company Name"))

\* the object pushed for one row; rid and rrate are the two Math.random() draws
MakeOperator(tds, rid, rrate) ==
    LET name    == CellText(tds, 1)
        phone   == CellText(tds, 2)
        address == CellText(tds, 3)
        email   == CellText(tds, 4)
        website == CellText(tds, 5)
    IN  [id         |-> generateId(name, rid),
         name       |-> name,
         phone      |-> phone,
         address    |-> [full |-> address, district |-> extractDistrict(address)],
         email      |-> email,
         website    |-> website,
         district   |-> extractDistrict(address),
         location   |-> extractLocation(address),
         category   |-> categorizeOperator(name),
         priceRange |-> estimatePriceRange(name),
         rating     |-> generateRating(rrate)]

RECURSIVE ExtractFrom(_, _, _)
ExtractFrom(rows, i, rnd) ==
    IF i > Len(rows) THEN <<>>
    ELSE (IF IsDataRow(rows[i])
          THEN <<MakeOperator(rows[i], rnd[i][1], rnd[i][2])>>
          ELSE <<>>) \o ExtractFrom(rows, i + 1, rnd)

\* extractOperatorsFromTable($): rows are the <tr> of the page in document
\* order, each the sequence of its <td> texts; rnd[i] are the random draws
\* available to row i
extractOperatorsFromTable(rows, rnd) == ExtractFrom(rows, 1, rnd)

\* ---------------------------------------------------------------------
\* The remote listing (BTB_URL): what a request can be answered with
\* ---------------------------------------------------------------------

\* the listing's pages are numbered 1..MaxPageId
MaxPageId == 40

\* the id of the grid rendered for a listing that has no operators
EmptyGrid == MaxPageId + 1

HEADER_ROW == <<"Company Name", "Phone", "Address", "Email", "Website">>

\* the <tr> rows of listing page id: header rows, a pager row, short and empty
\* rows, and one operator per page
Table(id) ==
    CASE id = 1 -> <<HEADER_ROW,
                     <<" Sea Dive Resort ", "226-1", "San Pedro, Ambergris Caye", "a@x.bz", "x.bz">>,
                     <<"Page 1">>>>
      [] id = 2 -> <<<<"Name", "Phone", "Address", "Email">>,
                     <<"Cayo Cave Tours", "824-2", " Bullet Tree Rd, Cayo ", "b@x.bz">>>>
      [] id = 3 -> <<<<"", "", "", "", "">>,
                     <<"Maya Fishing", "523-3", "Placencia", "", "">>>>
      [] id = EmptyGrid -> <<HEADER_ROW, <<"No records found">>>>
      [] OTHER  -> <<HEADER_ROW,
                     <<"Zip Line " \o ToString(id), "322-" \o ToString(id), "Orange Walk Town",
                       "", "">>>>

GRID == "ctl00$Grid"

\* the href of a pager link as ASP.NET renders it
PostBackHref(target, argument) ==
    "javascript:__doPostBack('" \o target \o "','" \o argument \o "')"

PageArg(n) == "Page$" \o ToString(n)

\* a pager link whose href names the page but is no __doPostBack('..','..') call
BrokenHref(n) == "javascript:goto(" \o PageArg(n) \o ")"

\* the pagers a page that answers the request for page id may carry: none (last
\* page), a link that does not parse, or, on a listing of more than id pages, a
\* link to the following page
Pagers(id, listingPages) ==
    { <<>>, <<BrokenHref(id + 1)>> }
      \cup (IF id < listingPages THEN { <<PostBackHref(GRID, PageArg(id + 1))>> } ELSE {})

\* a pager row with links to several pages: to page 10 * (id + 1), whose
\* argument starts like that of page id + 1, alone or before the link to
\* page id + 1, and to pages id + 1 and id + 2 in that order
PagerRows(id, listingPages) ==
    (IF 10 * (id + 1) <= listingPages
     THEN { <<PostBackHref(GRID, PageArg(10 * (id + 1)))>>,
            <<PostBackHref(GRID, PageArg(10 * (id + 1))), PostBackHref(GRID, PageArg(id + 1))>> }
     ELSE {})
      \cup (IF id + 2 <= listingPages
           THEN { <<PostBackHref(GRID, PageArg(id + 1)), PostBackHref(GRID, PageArg(id + 2))>> }
           ELSE {})

\* the anchors of the page that answers the request for page id; rows: whether
\* the remote renders pager rows of several links
Anchors(id, listingPages, rows) ==
    Pagers(id, listingPages) \cup (IF rows THEN PagerRows(id, listingPages) ELSE {})

\* the hidden <input>s of page id, in document order, as <<name, value>>
Inputs(id) ==
    CASE id = 1 -> << <<"__EVENTTARGET", "">>,
                      <<"__EVENTARGUMENT", "">>,
                      <<"__VIEWSTATE", "vs1">>,
                      <<"__VIEWSTATEGENERATOR", "gen1">>,
                      <<"__EVENTVALIDATION", "ev1">>,
                      <<"ctl00$q", "">>,
                      <<"ctl00$q", "tour">>,
                      <<"ctl00$q", "dive">>,
                      <<"", "anon">>,
                      <<"ctl00$btn", "Search">> >>
      [] id = 2 -> << <<"__VIEWSTATE", "vs2">>,
                      <<"__VIEWSTATE", "old">>,
                      <<"__EVENTVALIDATION", "ev2">>,
                      <<"__EVENTVALIDATION", "old">>,
                      <<"__EVENTTARGET", "ctl00$Other">>,
                      <<"ctl00$q", "">> >>
      [] OTHER  -> << <<"__VIEWSTATE", "vs" \o ToString(id)>>,
                      <<"__VIEWSTATEGENERATOR", "gen" \o ToString(id)>>,
                      <<"__EVENTVALIDATION", "ev" \o ToString(id)>>,
                      <<"ctl00$btn", "Search">> >>

\* a response: the body is listing page id with the hrefs of its anchors (its
\* rows are Table(id) and its inputs Inputs(id)); setCookie is
\* headers['set-cookie'], <<>> when the header is absent
Page(id, anchors, setCookie) == [id |-> id, anchors |-> anchors, setCookie |-> setCookie]

\* a Set-Cookie line of the remote's session
SessionCookie(id) == "ASP.NET_SessionId=s" \o ToString(id) \o "; path=/; HttpOnly"

\* the set-cookie headers the answer to the request for page id may carry (<<>>:
\* no header). A plain session sets its cookie with the first page and keeps
\* it; otherwise any answer may set or renew cookies
SetCookies(id, renewing) ==
    IF renewing
    THEN {<<>>, IF id = 1 THEN <<SessionCookie(id), "lang=en; path=/">>
                ELSE <<SessionCookie(id)>>}
    ELSE IF id = 1 THEN {<<SessionCookie(id)>>} ELSE {<<>>}

\* the page a request asks for: 1 for the GET, n for a POST whose
\* __EVENTARGUMENT is Page$n
RequestedPage(req) ==
    IF req.method = "GET" THEN 1
    ELSE LET ks == {k \in 1..MaxPageId : req.form["__EVENTARGUMENT"] = PageArg(k)}
         IN  IF ks = {} THEN 1 ELSE CHOOSE k \in ks : TRUE

\* ---------------------------------------------------------------------
\* scrapeAllPages: the steps between two awaits
\* ---------------------------------------------------------------------

SAFETY_LIMIT == 15

\* $('#name').val(): the value of the first input of that name, else undefined
UNDEFINED == "undefined"

InputVal(page, name) ==
    LET inputs == Inputs(page.id)
        hits   == {i \in 1..Len(inputs) : inputs[i][1] = name}
    IN  IF hits = {} THEN UNDEFINED
        ELSE inputs[CHOOSE i \in hits : \A j \in hits : i <= j][2]

\* $(`a[href*="Page$N"]`).first(): the href of the first matching anchor, <<>> if none
NextLink(page, nextPageNum) ==
    LET hits == {i \in 1..Len(page.anchors) : Includes(page.anchors[i], PageArg(nextPageNum))}
    IN  IF hits = {} THEN <<>>
        ELSE <<page.anchors[CHOOSE i \in hits : \A j \in hits : i <= j]>>

\* href.match(/__doPostBack\('([^']+)','([^']+)'\)/): <<target, argument>> of
\* the leftmost match, <<>> when there is none
PostBackAt(href, i) ==
    LET p == i + Len("__doPostBack('")
        q == IndexFrom(href, "'", p)
        r == IndexFrom(href, "'", q + 3)
    IN  IF /\ Sub(href, i, p - 1) = "__doPostBack('"
           /\ q > p
           /\ Sub(href, q, q + 2) = "','"
           /\ r > q + 3
           /\ Sub(href, r, r + 1) = "')"
        THEN <<Sub(href, p, q - 1), Sub(href, q + 3, r - 1)>>
        ELSE <<>>

PostBackMatch(href) ==
    LET hits == {i \in 1..Len(href) : PostBackAt(href, i) # <<>>}
    IN  IF hits = {} THEN <<>>
        ELSE PostBackAt(href, CHOOSE i \in hits : \A j \in hits : i <= j)

\* c.split(';')[0]
CookiePair(c) ==
    LET k == IndexFrom(c, ";", 1) IN IF k = 0 THEN c ELSE Sub(c, 1, k - 1)

RECURSIVE JoinPairs(_, _)
JoinPairs(setCookie, i) ==
    IF i > Len(setCookie) THEN ""
    ELSE (IF i = 1 THEN "" ELSE "; ") \o CookiePair(setCookie[i]) \o JoinPairs(setCookie, i + 1)

\* response.headers['set-cookie'].map(c => c.split(';')[0]).join('; ')
CookieString(setCookie) == JoinPairs(setCookie, 1)

\* variant: the cookies are taken from the first response that sets any and
\* kept from then on
CookiesAfterFirstOnly(cookies, setCookie) ==
    IF setCookie # <<>> /\ cookies = <<>> THEN <<CookieString(setCookie)>> ELSE cookies

\* if (response.headers['set-cookie']) cookies = ...; cookies is null (<<>>)
\* or holds one string
CookiesAfter(cookies, setCookie) ==
    IF setCookie # <<>> THEN <<CookieString(setCookie)>> ELSE cookies

\* falsy values of a form entry: absent/undefined or the empty string
Falsy(v) == v = UNDEFINED \/ v = ""

FormVal(form, name) == IF name \in DOMAIN form THEN form[name] ELSE UNDEFINED

\* variant: an input replaces whatever the form holds under its name
RECURSIVE AddInputsOverwriting(_, _, _)
AddInputsOverwriting(form, inputs, i) ==
    IF i > Len(inputs) THEN form
    ELSE LET name == inputs[i][1]
             val  == inputs[i][2]
         IN  IF /\ name # ""
                /\ name # "__VIEWSTATE"
                /\ name # "__EVENTVALIDATION"
             THEN AddInputsOverwriting((name :> val) @@ form, inputs, i + 1)
             ELSE AddInputsOverwriting(form, inputs, i + 1)

\* $('input').each(...): add every other named input not yet (truthily) in the form
RECURSIVE AddInputs(_, _, _)
AddInputs(form, inputs, i) ==
    IF i > Len(inputs) THEN form
    ELSE LET name == inputs[i][1]
             val  == inputs[i][2]
         IN  IF /\ name # ""
                /\ Falsy(FormVal(form, name))
                /\ name # "__VIEWSTATE"
                /\ name # "__EVENTVALIDATION"
             THEN AddInputs((name :> val) @@ form, inputs, i + 1)
             ELSE AddInputs(form, inputs, i + 1)

\* variant: the three tokens are those read from the first page
FormDataStaleTokens(page, eventTarget, eventArgument) ==
    AddInputs([__EVENTTARGET        |-> eventTarget,
               __EVENTARGUMENT      |-> eventArgument,
               __VIEWSTATE          |-> InputVal([page EXCEPT !.id = 1], "__VIEWSTATE"),
               __VIEWSTATEGENERATOR |-> InputVal([page EXCEPT !.id = 1], "__VIEWSTATEGENERATOR"),
               __EVENTVALIDATION    |-> InputVal([page EXCEPT !.id = 1], "__EVENTVALIDATION")],
              Inputs(page.id), 1)

\* the body posted for the next page
FormData(page, eventTarget, eventArgument) ==
    AddInputs([__EVENTTARGET        |-> eventTarget,
               __EVENTARGUMENT      |-> eventArgument,
               __VIEWSTATE          |-> InputVal(page, "__VIEWSTATE"),
               __VIEWSTATEGENERATOR |-> InputVal(page, "__VIEWSTATEGENERATOR"),
               __EVENTVALIDATION    |-> InputVal(page, "__EVENTVALIDATION")],
              Inputs(page.id), 1)

\* variant: a next link whose href does not parse is followed all the same
ContinuationUnparsed(page, count) ==
    LET nextLink == NextLink(page, count + 1)
    IN  IF nextLink = <<>> THEN <<>>
        ELSE IF PostBackMatch(nextLink[1]) # <<>> THEN PostBackMatch(nextLink[1])
        ELSE <<GRID, PageArg(count + 1)>>

\* the postback pair the walk follows from page when its counter is pageCount;
\* <<>> when there is no anchor for pageCount + 1 or its href does not parse
Continuation(page, count) ==
    LET nextLink == NextLink(page, count + 1)
    IN  IF nextLink = <<>> THEN <<>> ELSE PostBackMatch(nextLink[1])

\* variant: no safety test
SafetyStopNever(count) == FALSE

\* the test after the POST: pageCount > 15
SafetyStop(count) == count > SAFETY_LIMIT

\* ---------------------------------------------------------------------
\* The browser clients as they are constructed
\* ---------------------------------------------------------------------

\* useState([]), useState(true), useState(null), useState('all')
InitialHome ==
    [operators |-> <<>>, loading |-> TRUE, error |-> <<>>, activeCategory |-> "all"]

\* the effect of useEffect(..., []) has not run, no fetch is awaited and none
\* has settled
InitialEffects == [mounted |-> FALSE, awaiting |-> 0, settled |-> "none"]

EXPIRY_MINUTES == 30

\* this.cache = {data: null, timestamp: null, expiryMinutes: 30}; null is <<>>
\* and a value v is <<v>>
InitialCache == [data |-> <<>>, timestamp |-> <<>>, expiryMinutes |-> EXPIRY_MINUTES]

\* the callers of fetchLiveData: init() and the click of the refresh button
Callers == {"init", "refresh"}

\* a call of fetchLiveData that is not running
NoCall == [at |-> "idle"]

\* state.filters as the page sets them up
InitialFilters ==
    [category |-> "all", search |-> "", district |-> "all", priceRange |-> "all",
     location |-> "all", minRating |-> 0]

\* the page as it is served: the dropdown on 'All Districts', the
\* 'All Operators' chip active
InitialElements == [districtSelect |-> "all", activeChip |-> "all"]

\* const state = {allOperators: [], displayedOperators: [], filters: {...}}
InitialState ==
    [allOperators |-> <<>>, displayedOperators |-> <<>>, filters |-> InitialFilters]

\* ---------------------------------------------------------------------
\* Server state
\* ---------------------------------------------------------------------

CACHE_DURATION == 1000 * 60 * 60

\* concurrent requests to /api/operators
NumReqs == 2

Reqs == 1..NumReqs

\* Date.now() when the process starts (ms); the epoch clock is far past one TTL
StartTime == 10000000

\* the instants at which the clock is read
TimePoints ==
    {StartTime + d : d \in {0, CACHE_DURATION - 1, CACHE_DURATION, 2 * CACHE_DURATION}}

\* values Math.random() returns, in thousandths
RandVals == {0}

\* error.message of a failed axios request
Failures == {"connect ECONNREFUSED", "Request failed with status code 500"}

\* cachedOperators is null (<<>>) or holds one array (<<array>>)
NULL == <<>>

NoRes == [status |-> 0]

NoReq == [method |-> "NONE"]

NoPage == [id |-> 0, anchors |-> <<>>, setCookie |-> <<>>]

\* no helper is being called
NoInput == [kind |-> "none"]

NoOutput == [kind |-> "none"]

VARIABLES
    now,             \* Date.now()
    cachedOperators, \* let cachedOperators
    lastCacheTime,   \* let lastCacheTime
    pc,              \* where each request handler is
    operators,       \* scrapeAllPages: let operators
    pageCount,       \* scrapeAllPages: let pageCount
    cookies,         \* scrapeAllPages: let cookies
    response,        \* scrapeAllPages: response.data of the last response
    request,         \* the axios request the handler awaits
    fetches,         \* requests issued by the handler's walk so far
    thrown,          \* error.message of the request that failed in this call, else ""
    res,             \* what res.json sent
    input,           \* the argument a helper or the extractor is called with
    output,          \* what the calls on input returned
    home,            \* Home: the operators, loading and error state of the component
    effects,         \* Home: whether the mount effect ran, and the fetches awaited
    cache,           \* TravelBuddyAPI: this.cache
    calls,           \* TravelBuddyAPI: where each call of fetchLiveData is
    state,           \* prototype page: const state
    elements         \* prototype page: the district dropdown's value, the active chip

vars == <<now, cachedOperators, lastCacheTime, pc, operators, pageCount, cookies,
          response, request, fetches, thrown, res, input, output,
          home, effects, cache, calls, state, elements>>

\* the variables of the browser clients
clientVars == <<home, effects, cache, calls, state, elements>>

\* the variables of a call of a helper outside any request
callVars == <<input, output>>

cacheVars == <<cachedOperators, lastCacheTime>>

\* the clients before anything ran in them
InitClients ==
    /\ home = InitialHome
    /\ effects = InitialEffects
    /\ cache = InitialCache
    /\ calls = [c \in Callers |-> NoCall]
    /\ state = InitialState
    /\ elements = InitialElements

Init ==
    /\ InitClients
    /\ now = StartTime
    /\ cachedOperators = NULL
    /\ lastCacheTime = 0
    /\ pc = [h \in Reqs |-> "idle"]
    /\ operators = [h \in Reqs |-> <<>>]
    /\ pageCount = [h \in Reqs |-> 1]
    /\ cookies = [h \in Reqs |-> NULL]
    /\ response = [h \in Reqs |-> NoPage]
    /\ request = [h \in Reqs |-> NoReq]
    /\ fetches = [h \in Reqs |-> 0]
    /\ thrown = [h \in Reqs |-> ""]
    /\ res = [h \in Reqs |-> NoRes]
    /\ input = NoInput
    /\ output = NoOutput

\* the random draws one call of extractOperatorsFromTable may see
RandDraws(rows) == [1..Len(rows) -> RandVals \X RandVals]

\* extractOperatorsFromTable($) on each page of the listing, for every draw,
\* evaluated once
PageOperators ==
    [c \in UNION {{<<id, rnd>> : rnd \in RandDraws(Table(id))} : id \in 1..EmptyGrid} |->
        extractOperatorsFromTable(Table(c[1]), c[2])]

\* variant: an entry without records is not served
CacheValidNonEmpty(cached, t, last) ==
    cached # NULL /\ cached[1] # <<>> /\ t - last < CACHE_DURATION

\* variant: the age test is inverted
CacheValidInverted(cached, t, last) == cached # NULL /\ t - last > CACHE_DURATION

\* variant: an entry aged exactly CACHE_DURATION still counts as valid
CacheValidInclusive(cached, t, last) == cached # NULL /\ t - last <= CACHE_DURATION

\* cachedOperators && (Date.now() - lastCacheTime < CACHE_DURATION)
CacheValid(cached, t, last) == cached # NULL /\ t - last < CACHE_DURATION

\* variant: every success answer is flagged as served from the cache
SuccessJsonFlagged(data, cached) ==
    [status |-> 200, success |-> TRUE, count |-> Len(data), data |-> data, cached |-> TRUE]

\* res.json({success: true, count: ..., data: ..., cached: ...})
SuccessJson(data, cached) ==
    [status |-> 200, success |-> TRUE, count |-> Len(data), data |-> data, cached |-> cached]

FailureJson(message) ==
    [status |-> 500, success |-> FALSE, message |-> "Failed to fetch live data",
     error |-> message]

\* ---------------------------------------------------------------------
\* app.get('/api/operators') and scrapeAllPages, one action per stretch of
\* code between two awaits
\* ---------------------------------------------------------------------

\* variant: the stamp is written in a step of its own, ahead of the data
UpdateCacheStampFirst(allOperators, t) ==
    /\ lastCacheTime' = t
    /\ UNCHANGED cachedOperators

\* variant: a walk that returns while an entry is there leaves the entry alone
UpdateCacheFirstWins(allOperators, t) ==
    IF cachedOperators = NULL
    THEN cachedOperators' = <<allOperators>> /\ lastCacheTime' = t
    ELSE UNCHANGED cacheVars

\* variant: the data is replaced but the entry is not stamped
UpdateCacheNoStamp(allOperators, t) ==
    /\ cachedOperators' = <<allOperators>>
    /\ UNCHANGED lastCacheTime

\* cachedOperators = allOperators; lastCacheTime = Date.now();
UpdateCache(allOperators, t) ==
    /\ cachedOperators' = <<allOperators>>
    /\ lastCacheTime' = t

\* scrapeAllPages returned allOperators to handler h: update the cache and answer
WalkReturned(h, allOperators) ==
    /\ UpdateCache(allOperators, now)
    /\ res' = [res EXCEPT ![h] = SuccessJson(allOperators, FALSE)]
    /\ pc' = [pc EXCEPT ![h] = "responded"]
    /\ operators' = [operators EXCEPT ![h] = allOperators]
    /\ request' = [request EXCEPT ![h] = NoReq]
    /\ UNCHANGED <<fetches, thrown>>

\* variant: the cache is written page by page while the walk goes on
PostNextPageCaching(h, page, ops, postback, cookie) ==
    /\ request' = [request EXCEPT ![h] =
                      [method |-> "POST", form |-> FormData(page, postback[1], postback[2]),
                       cookie |-> cookie]]
    /\ fetches' = [fetches EXCEPT ![h] = @ + 1]
    /\ operators' = [operators EXCEPT ![h] = ops]
    /\ pc' = [pc EXCEPT ![h] = "post"]
    /\ cachedOperators' = <<ops>>
    /\ lastCacheTime' = now
    /\ UNCHANGED <<thrown, res>>

\* variant: the accumulator is one array shared by all walks
PostNextPageShared(h, page, ops, postback, cookie) ==
    /\ request' = [request EXCEPT ![h] =
                      [method |-> "POST", form |-> FormData(page, postback[1], postback[2]),
                       cookie |-> cookie]]
    /\ fetches' = [fetches EXCEPT ![h] = @ + 1]
    /\ operators' = [g \in Reqs |-> ops]
    /\ pc' = [pc EXCEPT ![h] = "post"]
    /\ UNCHANGED <<cacheVars, thrown, res>>

\* await axios.post(...) for the page the postback pair names
PostNextPage(h, page, ops, postback, cookie) ==
    /\ request' = [request EXCEPT ![h] =
                      [method |-> "POST", form |-> FormData(page, postback[1], postback[2]),
                       cookie |-> cookie]]
    /\ fetches' = [fetches EXCEPT ![h] = @ + 1]
    /\ operators' = [operators EXCEPT ![h] = ops]
    /\ pc' = [pc EXCEPT ![h] = "post"]
    /\ UNCHANGED <<cacheVars, thrown, res>>

\* variant: the page's records are put in front of the accumulated ones
LoopBodyPrepend(h, page, count, rnd, cookie) ==
    LET pageOperators == PageOperators[<<page.id, rnd>>]
        ops           == pageOperators \o operators[h]
        postback      == Continuation(page, count)
    IN  /\ response' = [response EXCEPT ![h] = page]
        /\ pageCount' = [pageCount EXCEPT ![h] = count]
        /\ IF postback # <<>>
           THEN PostNextPage(h, page, ops, postback, cookie)
           ELSE WalkReturned(h, ops)

\* one pass through the body of while (hasNextPage) with page in response.data
\* and cookie in cookies
LoopBody(h, page, count, rnd, cookie) ==
    LET pageOperators == PageOperators[<<page.id, rnd>>]
        ops           == operators[h] \o pageOperators
        postback      == Continuation(page, count)
    IN  /\ response' = [response EXCEPT ![h] = page]
        /\ pageCount' = [pageCount EXCEPT ![h] = count]
        /\ IF postback # <<>>
           THEN PostNextPage(h, page, ops, postback, cookie)
           ELSE WalkReturned(h, ops)

\* the handler is entered: serve the cache or start scrapeAllPages (axios.get)
Request(h) ==
    /\ pc[h] = "idle"
    /\ IF CacheValid(cachedOperators, now, lastCacheTime)
       THEN /\ res' = [res EXCEPT ![h] = SuccessJson(cachedOperators[1], TRUE)]
            /\ pc' = [pc EXCEPT ![h] = "responded"]
            /\ UNCHANGED <<operators, pageCount, cookies, request, fetches>>
       ELSE /\ operators' = [operators EXCEPT ![h] = <<>>]
            /\ pageCount' = [pageCount EXCEPT ![h] = 1]
            /\ cookies' = [cookies EXCEPT ![h] = NULL]
            /\ request' = [request EXCEPT ![h] = [method |-> "GET"]]
            /\ fetches' = [fetches EXCEPT ![h] = 1]
            /\ pc' = [pc EXCEPT ![h] = "get"]
            /\ UNCHANGED res
    /\ UNCHANGED <<now, cacheVars, response, thrown, callVars, clientVars>>

\* the GET is answered: the cookies are saved, then the first pass of the loop
GetOk(h, listingPages, renewing, rows) ==
    /\ pc[h] = "get"
    /\ \E anchors \in Anchors(RequestedPage(request[h]), listingPages, rows),
          setCookie \in SetCookies(RequestedPage(request[h]), renewing) :
         LET page   == Page(RequestedPage(request[h]), anchors, setCookie)
             cookie == CookiesAfter(cookies[h], setCookie)
         IN  /\ cookies' = [cookies EXCEPT ![h] = cookie]
             /\ \E rnd \in RandDraws(Table(page.id)) :
                  LoopBody(h, page, pageCount[h], rnd, cookie)
    /\ UNCHANGED <<now, callVars, clientVars>>

\* a POST is answered: pageCount++, the cookies are updated, the safety test,
\* then the next pass
PostOk(h, listingPages, renewing, rows) ==
    /\ pc[h] = "post"
    /\ \E anchors \in Anchors(RequestedPage(request[h]), listingPages, rows),
          setCookie \in SetCookies(RequestedPage(request[h]), renewing) :
         LET page   == Page(RequestedPage(request[h]), anchors, setCookie)
             count  == pageCount[h] + 1
             cookie == CookiesAfter(cookies[h], setCookie)
         IN  /\ cookies' = [cookies EXCEPT ![h] = cookie]
             /\ IF SafetyStop(count)
                THEN /\ response' = [response EXCEPT ![h] = page]
                     /\ pageCount' = [pageCount EXCEPT ![h] = count]
                     /\ WalkReturned(h, operators[h])
                ELSE \E rnd \in RandDraws(Table(page.id)) :
                       LoopBody(h, page, count, rnd, cookie)
    /\ UNCHANGED <<now, callVars, clientVars>>

\* the GET is answered with the grid of a listing without operators: no data
\* row and no pager
GetEmpty(h) ==
    /\ pc[h] = "get"
    /\ \E setCookie \in SetCookies(1, FALSE) :
         LET page   == Page(EmptyGrid, <<>>, setCookie)
             cookie == CookiesAfter(cookies[h], setCookie)
         IN  /\ cookies' = [cookies EXCEPT ![h] = cookie]
             /\ \E rnd \in RandDraws(Table(page.id)) :
                  LoopBody(h, page, pageCount[h], rnd, cookie)
    /\ UNCHANGED <<now, callVars, clientVars>>

\* variant: a failed walk evicts the entry
CatchCacheEvict(h) == cachedOperators' = NULL /\ lastCacheTime' = 0

\* what the catch block of handler h does to the cache: nothing
CatchCache(h) == UNCHANGED cacheVars

\* variant: the catch block answers with what the walk had accumulated
CatchJsonPartial(h, message) == SuccessJson(operators[h], FALSE)

\* what the catch block sends
CatchJson(h, message) == FailureJson(message)

\* the awaited request fails (connection error or non-2xx status): axios
\* throws, scrapeAllPages rejects and its locals are gone, the handler's
\* catch answers 500
FetchFail(h) ==
    /\ pc[h] \in {"get", "post"}
    /\ \E message \in Failures :
         /\ thrown' = [thrown EXCEPT ![h] = message]
         /\ res' = [res EXCEPT ![h] = CatchJson(h, message)]
    /\ pc' = [pc EXCEPT ![h] = "responded"]
    /\ request' = [request EXCEPT ![h] = NoReq]
    /\ CatchCache(h)
    /\ operators' = [operators EXCEPT ![h] = <<>>]
    /\ pageCount' = [pageCount EXCEPT ![h] = 1]
    /\ cookies' = [cookies EXCEPT ![h] = NULL]
    /\ response' = [response EXCEPT ![h] = NoPage]
    /\ UNCHANGED <<now, fetches, callVars, clientVars>>

\* the response is delivered; the handler's locals go out of scope
Close(h) ==
    /\ pc[h] = "responded"
    /\ pc' = [pc EXCEPT ![h] = "idle"]
    /\ operators' = [operators EXCEPT ![h] = <<>>]
    /\ pageCount' = [pageCount EXCEPT ![h] = 1]
    /\ cookies' = [cookies EXCEPT ![h] = NULL]
    /\ response' = [response EXCEPT ![h] = NoPage]
    /\ fetches' = [fetches EXCEPT ![h] = 0]
    /\ thrown' = [thrown EXCEPT ![h] = ""]
    /\ res' = [res EXCEPT ![h] = NoRes]
    /\ UNCHANGED <<now, cacheVars, request, callVars, clientVars>>

\* the clock advances
Tick ==
    /\ \E t \in TimePoints : t > now /\ now' = t
    /\ UNCHANGED <<cacheVars, pc, operators, pageCount, cookies, response, request, fetches,
                   thrown, res, callVars, clientVars>>

\* clients: the handlers that receive requests; listingPages: the pages the
\* remote listing has; renewing: whether the remote sets cookies at will;
\* rows: whether it renders pager rows of several links
NextOf(clients, listingPages, renewing, rows) ==
    \/ \E h \in clients : Request(h)
    \/ \E h \in clients : GetOk(h, listingPages, renewing, rows)
    \/ \E h \in clients : PostOk(h, listingPages, renewing, rows)
    \/ \E h \in clients : FetchFail(h)
    \/ \E h \in clients : Close(h)
    \/ Tick

\* pages of the short listing that concurrent requests walk
ShortListing == 2

\* concurrent requests against a short listing with a plain session
Next == NextOf(Reqs, ShortListing, FALSE, FALSE)

Spec == Init /\ [][Next]_vars

\* one request at a time against a listing longer than the safety limit,
\* whose answers set cookies at will
NextWalk == NextOf({1}, MaxPageId, TRUE, FALSE)

SpecWalk == Init /\ [][NextWalk]_vars

\* one request at a time against a listing whose pages carry pager rows of
\* several links
NextPager == NextOf({1}, MaxPageId, FALSE, TRUE)

SpecPager == Init /\ [][NextPager]_vars

\* one request at a time against a short listing that is at times empty
NextSparse == NextOf({1}, ShortListing, FALSE, FALSE) \/ GetEmpty(1)

SpecSparse == Init /\ [][NextSparse]_vars

\* every awaited request is eventually answered or fails
FetchesComplete ==
    WF_vars(GetOk(1, MaxPageId, FALSE, TRUE) \/ PostOk(1, MaxPageId, FALSE, TRUE) \/ FetchFail(1))

\* the same remote, answering every request in the end
SpecPagerFair == SpecPager /\ FetchesComplete

\* ---------------------------------------------------------------------
\* The field helpers and the extractor called on their own
\* ---------------------------------------------------------------------

\* words an address is made of: the keywords of extractDistrict and the
\* entries of locations in several letter cases, and words that are neither
AddressWords ==
    {"", "san pedro", "San Pedro", "SAN PEDRO", "sAn PeDrO", "Sanpedro", "Ambergris Caye",
     "Caye Caulker", "Belize City", "Ladyville", "Cayo", "San Ignacio", "SANTA ELENA",
     "Benque Viejo", "bullet tree", "Stann Creek", "Placencia", "Dangriga", "HOPKINS",
     "Corozal", "Orange Walk", "orange  walk", "Toledo", "Punta Gorda", "Belmopan",
     "Mile 12 Hwy", "Unknown"}

\* what surrounds the word: <<before, after>>
AddressContexts ==
    {<<"", "">>, <<"12 Front St, ", "">>, <<"", ", Cayo District">>,
     <<"Toledo Rd, ", ", Belize C.A.">>, <<"", " (near Hopkins)">>, <<"Corozal St, ", "">>}

\* the addresses the helpers are called with
Addresses == {c[1] \o w \o c[2] : c \in AddressContexts, w \in AddressWords}

\* words a name is made of: the keywords of categorizeOperator and
\* estimatePriceRange, and words that are neither
NameWords ==
    {"", "Dive", "SCUBA", "Sea", "Snorkel", "Maya", "Ruins", "Archaeology", "Adventure",
     "Cave", "Zip", "Jungle", "Fishing", "Resort", "Hotel", "Lodge", "Rentals", "Golf Cart",
     "golf  cart", "Luxury", "Heli", "Private", "Tours"}

NameContexts ==
    {<<"", "">>, <<"Blue ", " Co.">>, <<"", " Resort">>, <<"Jungle ", "">>,
     <<"", " dive shop">>, <<"Rent-a-", " fishing">>}

\* the names the helpers are called with
Names == {c[1] \o w \o c[2] : c \in NameContexts, w \in NameWords}

\* Math.random() is read in steps of 1/RandomSteps
RandomSteps == 1000

\* the values of Math.random(), in thousandths: 0 <= r < 1
Randoms == 0..(RandomSteps - 1)

\* the <tr> rows a page is made of, each the texts of its <td>
SampleRows ==
    {<<" Sea Dive Resort ", "226-1", "San Pedro", "a@x.bz", "x.bz">>,
     <<"Cayo Cave Tours", "824-2", "Cayo", "b@x.bz">>,
     <<"Maya Fishing", "523-3", "Placencia">>,
     <<"Name", "Phone", "Address", "Email">>,
     <<"The Company Name", "Phone", "Address", "Email", "Website">>,
     <<"  ", "1", "2", "3", "4">>,
     <<"Names Inc", "", "", "", "">>}

\* rows of the longest page the extractor is called with
MaxRows == 2

\* the pages the extractor is called with
SampleTables == UNION {[1..n -> SampleRows] : n \in 1..MaxRows}

\* the two Math.random() draws of a pushed row: <<for the id, for the rating>>
RowDraws == {<<0, 0>>, <<7, 999>>}

CallInputs ==
    {[kind |-> "address", value |-> a] : a \in Addresses}
      \cup {[kind |-> "name", value |-> n] : n \in Names}
      \cup {[kind |-> "random", value |-> r] : r \in Randoms}
      \cup {[kind |-> "rows", value |-> t] : t \in SampleTables}

\* no request is in progress; one argument is chosen
InitCall ==
    /\ InitClients
    /\ now = StartTime
    /\ cachedOperators = NULL
    /\ lastCacheTime = 0
    /\ pc = [h \in Reqs |-> "idle"]
    /\ operators = [h \in Reqs |-> <<>>]
    /\ pageCount = [h \in Reqs |-> 1]
    /\ cookies = [h \in Reqs |-> NULL]
    /\ response = [h \in Reqs |-> NoPage]
    /\ request = [h \in Reqs |-> NoReq]
    /\ fetches = [h \in Reqs |-> 0]
    /\ thrown = [h \in Reqs |-> ""]
    /\ res = [h \in Reqs |-> NoRes]
    /\ input \in CallInputs
    /\ output = NoOutput

serverVars == <<now, cachedOperators, lastCacheTime, pc, operators, pageCount, cookies,
                response, request, fetches, thrown, res>>

\* district: extractDistrict(address), location: extractLocation(address)
DeriveFromAddress ==
    /\ input.kind = "address"
    /\ output = NoOutput
    /\ output' = [kind     |-> "address",
                  district |-> extractDistrict(input.value),
                  location |-> extractLocation(input.value)]
    /\ UNCHANGED <<input, serverVars, clientVars>>

\* category: categorizeOperator(name), priceRange: estimatePriceRange(name)
DeriveFromName ==
    /\ input.kind = "name"
    /\ output = NoOutput
    /\ output' = [kind       |-> "name",
                  category   |-> categorizeOperator(input.value),
                  priceRange |-> estimatePriceRange(input.value)]
    /\ UNCHANGED <<input, serverVars, clientVars>>

\* rating: generateRating()
Rate ==
    /\ input.kind = "random"
    /\ output = NoOutput
    /\ output' = [kind |-> "random", rating |-> generateRating(input.value)]
    /\ UNCHANGED <<input, serverVars, clientVars>>

\* extractOperatorsFromTable($) on the same page, a first and a second time
Extract ==
    /\ input.kind = "rows"
    /\ \/ output = NoOutput
       \/ output.kind = "rows" /\ Len(output.results) = 1
    /\ \E rnd \in [1..Len(input.value) -> RowDraws] :
         output' = [kind    |-> "rows",
                    results |-> (IF output = NoOutput THEN <<>> ELSE output.results)
                                  \o <<extractOperatorsFromTable(input.value, rnd)>>]
    /\ UNCHANGED <<input, serverVars, clientVars>>

NextCall ==
    \/ DeriveFromAddress
    \/ DeriveFromName
    \/ Rate
    \/ Extract

SpecCall == InitCall /\ [][NextCall]_vars

\* ---------------------------------------------------------------------
\* The Home page component (page.tsx)
\* ---------------------------------------------------------------------

\* fetches of /api/operators the component awaits at once
MaxAwaiting == 2

\* the data arrays a successful answer carries (operators by their id)
HomeLists == {<<>>, <<"seadiveres0">>, <<"seadiveres0", "cayocaveto0">>}

\* what response.json() resolves to
HomeAnswers ==
    {[success |-> TRUE, data |-> d] : d \in HomeLists}
      \cup {[success |-> FALSE, message |-> m] : m \in {"Failed to fetch live data", ""}}

\* err.message when fetch or response.json() rejects
HomeRejections == {"Failed to fetch", "Unexpected token < in JSON at position 0"}

\* the chips of the category bar
HomeCategories == {"all", "diving", "adventure", "mayan", "resort", "cayo", "sanpedro"}

\* what the component renders: the error view comes first
HomeView ==
    IF home.error # NULL THEN "error"
    ELSE IF home.loading THEN "loading"
    ELSE "list"

\* fetchOperators up to its first await: setLoading(true), fetch(...)
fetchOperators ==
    /\ effects.awaiting < MaxAwaiting
    /\ home' = [home EXCEPT !.loading = TRUE]
    /\ effects' = [effects EXCEPT !.mounted = TRUE, !.awaiting = @ + 1]

\* useEffect(() => { fetchOperators(); }, [])
Mount ==
    /\ ~effects.mounted
    /\ fetchOperators
    /\ UNCHANGED <<serverVars, callVars, cache, calls, state, elements>>

\* the 'Try Again' button of the error view
TryAgain ==
    /\ effects.mounted
    /\ HomeView = "error"
    /\ fetchOperators
    /\ UNCHANGED <<serverVars, callVars, cache, calls, state, elements>>

\* the refresh button, disabled while loading
Refresh ==
    /\ effects.mounted
    /\ HomeView = "list"
    /\ fetchOperators
    /\ UNCHANGED <<serverVars, callVars, cache, calls, state, elements>>

\* a chip of the category bar is clicked: setActiveCategory(cat.id)
SelectCategory ==
    /\ effects.mounted
    /\ HomeView # "error"
    /\ \E c \in HomeCategories : home' = [home EXCEPT !.activeCategory = c]
    /\ UNCHANGED <<serverVars, callVars, effects, cache, calls, state, elements>>

\* if (result.success) setOperators(result.data); finally setLoading(false)
AnswerSuccess(result) ==
    home' = [home EXCEPT !.operators = result.data, !.loading = FALSE]

\* catch (err) setError(err.message); finally setLoading(false)
AnswerCaught(message) ==
    home' = [home EXCEPT !.error = <<message>>, !.loading = FALSE]

\* an awaited fetch and its response.json() resolve
FetchResolved ==
    /\ effects.awaiting > 0
    /\ \E result \in HomeAnswers :
         IF result.success
         THEN /\ AnswerSuccess(result)
              /\ effects' = [effects EXCEPT !.awaiting = @ - 1, !.settled = "success"]
         ELSE /\ AnswerCaught(IF result.message # "" THEN result.message
                              ELSE "Failed to fetch")
              /\ effects' = [effects EXCEPT !.awaiting = @ - 1, !.settled = "failure"]
    /\ UNCHANGED <<serverVars, callVars, cache, calls, state, elements>>

\* an awaited fetch or its response.json() rejects
FetchRejected ==
    /\ effects.awaiting > 0
    /\ \E message \in HomeRejections : AnswerCaught(message)
    /\ effects' = [effects EXCEPT !.awaiting = @ - 1, !.settled = "failure"]
    /\ UNCHANGED <<serverVars, callVars, cache, calls, state, elements>>

NextHome ==
    \/ Mount
    \/ TryAgain
    \/ Refresh
    \/ SelectCategory
    \/ FetchResolved
    \/ FetchRejected

SpecHome == Init /\ [][NextHome]_vars

\* ---------------------------------------------------------------------
\* The prototype's TravelBuddyAPI (api.js): fetchLiveData and its cache
\* ---------------------------------------------------------------------

\* this.cache.expiryMinutes * 60 * 1000
ExpiryMs == cache.expiryMinutes * 60 * 1000

\* the times the prototype's clock shows: around the expiry of an entry
\* written at StartTime
ApiTimePoints ==
    {StartTime + d : d \in {0, EXPIRY_MINUTES * 60 * 1000 - 1, EXPIRY_MINUTES * 60 * 1000,
                            2 * EXPIRY_MINUTES * 60 * 1000}}

\* loadFallbackData(): the placeholder list, by id
FallbackData == <<"fallback-1">>

\* what response.json() resolves to: a success with data (possibly empty), a
\* success without data field, the server's failure body
LiveAnswers ==
    {[success |-> TRUE, data |-> d] :
        d \in {<<>>, <<"seadiveres0">>, <<"seadiveres0", "cayocaveto0">>}}
      \cup {[success |-> TRUE],
            [success |-> FALSE, message |-> "Failed to fetch live data"]}

\* isCacheValid()
isCacheValid ==
    IF cache.data = NULL \/ cache.timestamp = NULL THEN FALSE
    ELSE now - cache.timestamp[1] < ExpiryMs

\* variant: any successful answer with a data array is taken
LiveDataUsableAnySuccess(result) == result.success /\ "data" \in DOMAIN result

\* result.success && result.data.length > 0, without the TypeError that a
\* missing data array throws into the catch block
LiveDataUsable(result) ==
    result.success /\ "data" \in DOMAIN result /\ Len(result.data) > 0

\* fetchLiveData is called: the cached data are returned, or the request to the
\* live server is sent
FetchLiveData(c) ==
    /\ calls[c].at = "idle"
    /\ IF isCacheValid
       THEN calls' = [calls EXCEPT ![c] =
                         [at |-> "returned", value |-> cache.data[1], answer |-> "none"]]
       ELSE calls' = [calls EXCEPT ![c] = [at |-> "fetch"]]
    /\ UNCHANGED <<serverVars, callVars, home, effects, cache, state, elements>>

\* the awaited fetch and response.json() resolve
LiveAnswered(c) ==
    /\ calls[c].at = "fetch"
    /\ \E result \in LiveAnswers :
         IF LiveDataUsable(result)
         THEN /\ cache' = [cache EXCEPT !.data = <<result.data>>, !.timestamp = <<now>>]
              /\ calls' = [calls EXCEPT ![c] =
                              [at |-> "returned", value |-> result.data, answer |-> result]]
         ELSE /\ calls' = [calls EXCEPT ![c] =
                              [at |-> "returned", value |-> FallbackData, answer |-> result]]
              /\ UNCHANGED cache
    /\ UNCHANGED <<serverVars, callVars, home, effects, state, elements>>

\* the awaited fetch or response.json() rejects: the catch block
LiveRejected(c) ==
    /\ calls[c].at = "fetch"
    /\ calls' = [calls EXCEPT ![c] =
                    [at |-> "returned", value |-> FallbackData, answer |-> [success |-> FALSE]]]
    /\ UNCHANGED <<serverVars, callVars, home, effects, cache, state, elements>>

\* the caller has taken the returned list
CallDone(c) ==
    /\ calls[c].at = "returned"
    /\ calls' = [calls EXCEPT ![c] = NoCall]
    /\ UNCHANGED <<serverVars, callVars, home, effects, cache, state, elements>>

\* the browser's clock advances
ApiTick ==
    /\ \E t \in ApiTimePoints : t > now /\ now' = t
    /\ UNCHANGED <<cacheVars, pc, operators, pageCount, cookies, response, request, fetches,
                   thrown, res, callVars, clientVars>>

NextApi ==
    \/ \E c \in Callers : FetchLiveData(c)
    \/ \E c \in Callers : LiveAnswered(c)
    \/ \E c \in Callers : LiveRejected(c)
    \/ \E c \in Callers : CallDone(c)
    \/ ApiTick

SpecApi == Init /\ [][NextApi]_vars

\* ---------------------------------------------------------------------
\* The prototype page (app.js): state.filters and the handlers that set them
\* ---------------------------------------------------------------------

\* the operators getAllOperators() resolves to; rating is in tenths
SampleOperators ==
    << [name |-> "Sea Dive Resort", category |-> "Diving", district |-> "Belize",
        location |-> "San Pedro", priceRange |-> "$$$", rating |-> 45,
        address |-> [full |-> "San Pedro, Ambergris Caye"], email |-> "a@x.bz"],
       [name |-> "Cayo Cave Tours", category |-> "Adventure", district |-> "Cayo",
        location |-> "Belize", priceRange |-> "$", rating |-> 42,
        address |-> [full |-> "Bullet Tree Rd, Cayo"], email |-> "b@x.bz"],
       [name |-> "Belize City Divers", category |-> "Diving", district |-> "Belize",
        location |-> "Belize City", priceRange |-> "$$", rating |-> 48,
        address |-> [full |-> "12 Front St, Belize City"], email |-> ""],
       [name |-> "Maya Fishing", category |-> "Mayan Tours", district |-> "Stann Creek",
        location |-> "Placencia", priceRange |-> "$$", rating |-> 50,
        address |-> [full |-> "Placencia"], email |-> ""] >>

\* data-filter of the chips: the two quick-filters, 'all' and categories
Chips == {"all", "Diving", "Adventure", "cayo", "sanpedro"}

\* what the other controls can be set to
PriceOptions == {"all", "$$"}

RatingOptions == {0, 45}

SearchTexts == {"", "San"}

\* whether operator op passes filterOperators' tests
PassesFilters(op, f) ==
    /\ (f.category # "" /\ f.category # "all") => op.category = f.category
    /\ (f.district # "" /\ f.district # "all") => op.district = f.district
    /\ (f.location # "" /\ f.location # "all") => op.location = f.location
    /\ (f.priceRange # "" /\ f.priceRange # "all") => op.priceRange = f.priceRange
    /\ f.minRating # 0 => op.rating >= f.minRating
    /\ f.search # ""
         => LET query == toLowerCase(f.search)
            IN  \/ Includes(toLowerCase(op.name), query)
                \/ Includes(toLowerCase(op.address.full), query)
                \/ Includes(toLowerCase(op.email), query)
                \/ Includes(toLowerCase(op.district), query)
                \/ Includes(toLowerCase(op.location), query)

\* travelBuddyAPI.filterOperators(operators, filters)
filterOperators(ops, f) ==
    LET Passes(op) == PassesFilters(op, f) IN SelectSeq(ops, Passes)

\* applyFilters() once the filters are f
applyFilters(f) ==
    state' = [state EXCEPT !.filters = f,
                           !.displayedOperators = filterOperators(state.allOperators, f)]

\* the <option> values of the district dropdown: 'all' and getDistricts(ops)
DistrictOptions(ops) == {"all"} \cup {ops[i].district : i \in 1..Len(ops)}

\* elements.districtSelect.value = v: a value without option selects nothing
SelectValue(ops, v) == IF v \in DistrictOptions(ops) THEN v ELSE ""

\* init(): the operators are loaded, the dropdown is filled, the grid rendered
PageInit ==
    /\ state.allOperators = <<>>
    /\ state' = [state EXCEPT
                   !.allOperators = SampleOperators,
                   !.displayedOperators = filterOperators(SampleOperators, state.filters)]
    /\ elements' = [elements EXCEPT
                      !.districtSelect = SelectValue(SampleOperators, elements.districtSelect)]
    /\ UNCHANGED <<serverVars, callVars, home, effects, cache, calls>>

\* the filters after a click on the chip whose data-filter is filterType
ChipFilters(f, filterType) ==
    IF filterType = "cayo"
    THEN [f EXCEPT !.category = "all", !.district = "Cayo"]
    ELSE IF filterType = "sanpedro"
    THEN [f EXCEPT !.category = "all", !.district = "Belize", !.location = "San Pedro"]
    ELSE IF f.location = "San Pedro" /\ filterType # "all"
    THEN [f EXCEPT !.category = filterType, !.location = "all", !.district = "all"]
    ELSE [f EXCEPT !.category = filterType]

\* the dropdown after that click
ChipSelect(f, filterType, ops, shown) ==
    IF filterType = "cayo" THEN SelectValue(ops, "Cayo")
    ELSE IF filterType = "sanpedro" THEN SelectValue(ops, "Belize")
    ELSE IF f.location = "San Pedro" /\ filterType # "all" THEN SelectValue(ops, "all")
    ELSE shown

\* a chip is clicked
ChipClick ==
    /\ \E chip \in Chips :
         /\ elements' = [districtSelect |->
                            ChipSelect(state.filters, chip, state.allOperators,
                                       elements.districtSelect),
                         activeChip |-> chip]
         /\ applyFilters(ChipFilters(state.filters, chip))
    /\ UNCHANGED <<serverVars, callVars, home, effects, cache, calls>>

\* the district dropdown is changed by the user
DistrictChange ==
    /\ \E v \in DistrictOptions(state.allOperators) \ {elements.districtSelect} :
         /\ elements' = [elements EXCEPT !.districtSelect = v]
         /\ applyFilters([state.filters EXCEPT !.district = v, !.location = "all"])
    /\ UNCHANGED <<serverVars, callVars, home, effects, cache, calls>>

\* the price dropdown is changed
PriceChange ==
    /\ \E v \in PriceOptions \ {state.filters.priceRange} :
         applyFilters([state.filters EXCEPT !.priceRange = v])
    /\ UNCHANGED <<serverVars, callVars, home, effects, cache, calls, elements>>

\* the rating dropdown is changed
RatingChange ==
    /\ \E v \in RatingOptions \ {state.filters.minRating} :
         applyFilters([state.filters EXCEPT !.minRating = v])
    /\ UNCHANGED <<serverVars, callVars, home, effects, cache, calls, elements>>

\* the search box is typed in
SearchInput ==
    /\ \E v \in SearchTexts \ {state.filters.search} :
         applyFilters([state.filters EXCEPT !.search = v])
    /\ UNCHANGED <<serverVars, callVars, home, effects, cache, calls, elements>>

NextPage ==
    \/ PageInit
    \/ ChipClick
    \/ DistrictChange
    \/ PriceChange
    \/ RatingChange
    \/ SearchInput

SpecPage == Init /\ [][NextPage]_vars

\* ---------------------------------------------------------------------
\* Vocabulary of the properties
\* ---------------------------------------------------------------------

\* handler h has a walk in flight
Walking(h) == pc[h] \in {"get", "post"}

\* handler h answered with the result of its own walk
AnsweredWalk(h) == pc[h] = "responded" /\ res[h].status = 200 /\ ~res[h].cached

\* handler h answered from the cache
AnsweredCache(h) == pc[h] = "responded" /\ res[h].status = 200 /\ res[h].cached

\* handler h answered after one of its requests failed
AnsweredFailed(h) == pc[h] = "responded" /\ thrown[h] # ""

\* in this step handler h enters the route
Enters(h) == pc[h] = "idle" /\ pc'[h] # "idle"

\* in this step a request of handler h fails
FailsNow(h) == thrown[h] = "" /\ thrown'[h] # ""

\* in this step the walk of handler h returns
ReturnsNow(h) == Walking(h) /\ pc'[h] = "responded" /\ thrown'[h] = ""

\* the collections a walk over listing pages 1..n can accumulate
RECURSIVE WalkResults(_)
WalkResults(n) ==
    IF n = 0 THEN {<<>>}
    ELSE {a \o PageOperators[<<n, rnd>>] :
            a \in WalkResults(n - 1), rnd \in RandDraws(Table(n))}

\* the last page handler h received is one the walk must stop at
NoNextLink(h) == response[h].id # 0 /\ response[h].anchors = <<>>

UnparsedNextLink(h) ==
    response[h].id # 0 /\ response[h].anchors = <<BrokenHref(pageCount[h] + 1)>>

ValidNextLink(h) ==
    /\ response[h].id # 0
    /\ response[h].anchors = <<PostBackHref(GRID, PageArg(pageCount[h] + 1))>>

\* the cache entry can be served at the current time
Servable == cachedOperators # NULL /\ now - lastCacheTime < CACHE_DURATION

\* ---------------------------------------------------------------------
\* C1  Single-flight: however many calls overlap while the cache is empty or
\* expired, at most one walk is in flight at any time.
\* ---------------------------------------------------------------------
C1_SingleFlight == Cardinality({h \in Reqs : Walking(h)}) <= 1

\* ---------------------------------------------------------------------
\* C2  Cache hit: a call entered while the cache is non-null and younger than
\* the TTL answers with exactly the cached collection, flagged cached, and
\* issues no request to the remote source.
\* ---------------------------------------------------------------------
C2_CacheHit ==
    [][\A h \in Reqs :
         (Enters(h) /\ cachedOperators # NULL /\ now - lastCacheTime < CACHE_DURATION)
           => /\ pc'[h] = "responded"
              /\ res'[h] = [status |-> 200, success |-> TRUE,
                            count |-> Len(cachedOperators[1]),
                            data |-> cachedOperators[1], cached |-> TRUE]
              /\ fetches'[h] = 0
              /\ request'[h] = NoReq
              /\ UNCHANGED cacheVars]_vars

\* a second call was served from the cache a first call's walk filled
C2_Witness ==
    \E h \in Reqs :
        /\ AnsweredCache(h)
        /\ fetches[h] = 0
        /\ res[h].count > 0
        /\ cachedOperators = <<res[h].data>>
        /\ now > lastCacheTime

\* ---------------------------------------------------------------------
\* C3  A call one of whose fetches failed (the GET or a later POST) answers
\* with the failure object {success:false, message, error}: neither the
\* records accumulated so far nor a cached collection are returned.
\* ---------------------------------------------------------------------
C3_FailurePropagates ==
    \A h \in Reqs :
        AnsweredFailed(h)
          => res[h] = [status |-> 500, success |-> FALSE,
                       message |-> "Failed to fetch live data", error |-> thrown[h]]

\* a POST failed after a page had been extracted, while an older entry was cached
C3_Witness ==
    \E h \in Reqs :
        /\ AnsweredFailed(h)
        /\ fetches[h] >= 2
        /\ cachedOperators # NULL
        /\ ~res[h].success

C5_SafetyBoundFetches ==
    \A h \in Reqs :
        (pc[h] = "responded" /\ fetches[h] > 0 /\ ValidNextLink(h))
          => /\ res[h].status = 200
             /\ fetches[h] = 15

\* ---------------------------------------------------------------------
\* C6  On a listing of P pages (1 <= P <= 15), pages 1..P-1 linking to their
\* successor and page P carrying no link, the walk makes exactly P fetches,
\* ends normally and returns the records of pages 1..P in page order, each
\* page's in row order.
\* ---------------------------------------------------------------------
C6_PagesConcatenated ==
    \A h \in Reqs :
        (pc[h] = "responded" /\ NoNextLink(h) /\ pageCount[h] <= 15)
          => /\ res[h].status = 200
             /\ ~res[h].cached
             /\ fetches[h] = pageCount[h]
             /\ res[h].data \in WalkResults(pageCount[h])
             /\ res[h].count = Len(res[h].data)

\* a three-page walk returned the three pages' records
C6_Witness ==
    \E h \in Reqs :
        /\ AnsweredWalk(h)
        /\ NoNextLink(h)
        /\ pageCount[h] = 3
        /\ fetches[h] = 3
        /\ [i \in 1..Len(res[h].data) |-> res[h].data[i].name]
             = <<"Sea Dive Resort", "Cayo Cave Tours", "Maya Fishing">>

C8_ExpiredWalkReplaces ==
    [][\A h \in Reqs :
         /\ (Enters(h) /\ ~Servable)
              => (pc'[h] = "get" /\ fetches'[h] = 1 /\ operators'[h] = <<>>)
         /\ (Walking(h) /\ pc'[h] = "get") => (pc[h] = "get" /\ fetches'[h] = fetches[h])
         /\ ReturnsNow(h)
              => /\ res'[h].status = 200
                 /\ res'[h].cached = FALSE
                 /\ res'[h].data = operators'[h]
                 /\ cachedOperators' = <<res'[h].data>>
                 /\ lastCacheTime' = now']_vars

\* an entry that had been served was replaced, after a TTL, by a walk's other result
C8_Witness ==
    \E h, g \in Reqs :
        /\ AnsweredWalk(h)
        /\ AnsweredCache(g)
        /\ cachedOperators = <<res[h].data>>
        /\ res[g].data # res[h].data
        /\ lastCacheTime = now
        /\ now >= StartTime + CACHE_DURATION

\* ---------------------------------------------------------------------
\* C9  Cache lifecycle: the cache is null at start and its data changes only
\* in the step in which a walk returns, to that walk's complete result; it
\* never takes the accumulation of a walk in progress or of a failed walk.
\* ---------------------------------------------------------------------
C9_CacheNeverPartial ==
    [][cachedOperators' # cachedOperators
         => \E h \in Reqs :
              /\ ReturnsNow(h)
              /\ cachedOperators' = <<operators'[h]>>
              /\ \/ response'[h].anchors = <<>>
                 \/ response'[h].anchors = <<BrokenHref(pageCount'[h] + 1)>>
                 \/ pageCount'[h] > SAFETY_LIMIT
              /\ operators'[h] \in WalkResults(IF pageCount'[h] > SAFETY_LIMIT
                                               THEN SAFETY_LIMIT ELSE pageCount'[h])]_vars

\* a walk holds a partial accumulation, another failed, and the cache holds a
\* complete result that is neither
C9_Witness ==
    \E h, g \in Reqs :
        /\ pc[h] = "post"
        /\ Len(operators[h]) = 1
        /\ AnsweredFailed(g)
        /\ fetches[g] >= 2
        /\ cachedOperators # NULL
        /\ Len(cachedOperators[1]) = 2

\* ---------------------------------------------------------------------
\* C10  The TTL is one hour from the completion of the producing walk: a call
\* is served from the cache iff the cache is non-null and
\* now - lastCacheTime < 3,600,000 ms; at an age of exactly 3,600,000 ms
\* the call walks.
\* ---------------------------------------------------------------------
C10_TtlOneHour ==
    [][\A h \in Reqs :
         /\ Enters(h)
              => /\ (pc'[h] = "responded" /\ res'[h].status = 200 /\ res'[h].cached)
                      <=> (cachedOperators # NULL /\ now - lastCacheTime < 3600000)
                 /\ (cachedOperators # NULL /\ now - lastCacheTime = 3600000)
                      => pc'[h] = "get"
         /\ ReturnsNow(h) => lastCacheTime' = now']_vars

\* a call entered when the entry was exactly one hour old is walking
C10_Witness ==
    /\ pc[1] = "get"
    /\ cachedOperators # NULL
    /\ now - lastCacheTime = 3600000

\* ---------------------------------------------------------------------
\* C11  Every success answer has count equal to the number of records in
\* data; cached is true exactly when the call was served from the cache
\* without starting a walk, and false exactly when the call made the walk
\* whose result it answers.
\* ---------------------------------------------------------------------
C11_SuccessShape ==
    \A h \in Reqs :
        (pc[h] = "responded" /\ res[h].status = 200)
          => /\ res[h].success = TRUE
             /\ res[h].count = Len(res[h].data)
             /\ res[h].cached = TRUE <=> fetches[h] = 0
             /\ res[h].cached = FALSE <=> (fetches[h] >= 1 /\ res[h].data = operators[h])

\* one call answered its own two-page walk, another the cached result of it
C11_Witness ==
    \E h, g \in Reqs :
        /\ AnsweredWalk(h) /\ fetches[h] = 2 /\ res[h].count = 2
        /\ AnsweredCache(g) /\ fetches[g] = 0 /\ res[g].count = 2

\* ---------------------------------------------------------------------
\* Vocabulary of the properties of the helpers
\* ---------------------------------------------------------------------

\* the helpers returned for an address / a name / a random value / a page
AddressDone == output.kind = "address"

NameDone == output.kind = "name"

RatingDone == output.kind = "random"

\* text contains word, whatever the letter case of text
ContainsWord(text, word) == Includes(toLowerCase(text), word)

\* groups: a sequence of <<value, keywords>>; the value of the first group one
\* of whose keywords text contains, else fallback
FirstGroup(groups, text, fallback) ==
    LET hits == {k \in 1..Len(groups) : \E w \in groups[k][2] : ContainsWord(text, w)}
    IN  IF hits = {} THEN fallback
        ELSE groups[CHOOSE k \in hits : \A j \in hits : k <= j][1]

\* the keywords of the districts tested before the Belize settlements
EarlierDistrictWords ==
    {"cayo", "san ignacio", "santa elena", "benque", "bullet tree", "stann", "placencia",
     "dangriga", "hopkins", "corozal", "orange walk", "toledo", "punta gorda"}

\* ---------------------------------------------------------------------
\* C12 (as stated)  For every address that contains 'san pedro' in any letter
\* case, whatever else it contains, extractDistrict returns 'Belize' and
\* extractLocation returns 'San Pedro'.
\* ---------------------------------------------------------------------
C12_SanPedroAlwaysBelize ==
    (AddressDone /\ ContainsWord(input.value, "san pedro"))
      => (output.district = "Belize" /\ output.location = "San Pedro")

\* ---------------------------------------------------------------------
\* C12 (amended)  For every address that contains 'san pedro' in any letter
\* case, extractLocation returns 'San Pedro'; extractDistrict returns
\* 'Belize' when the address contains no keyword of a district tested
\* earlier, and one of the five other districts when it does.
\* ---------------------------------------------------------------------
C12_SanPedro ==
    (AddressDone /\ ContainsWord(input.value, "san pedro"))
      => /\ output.location = "San Pedro"
         /\ (\A w \in EarlierDistrictWords : ~ContainsWord(input.value, w))
              => output.district = "Belize"
         /\ (\E w \in EarlierDistrictWords : ContainsWord(input.value, w))
              => output.district \in {"Cayo", "Stann Creek", "Corozal", "Orange Walk", "Toledo"}

\* an upper-case SAN PEDRO after a street gave Belize / San Pedro
C12_Witness ==
    /\ AddressDone
    /\ input.value = "12 Front St, SAN PEDRO"
    /\ output.district = "Belize"
    /\ output.location = "San Pedro"

\* ---------------------------------------------------------------------
\* C13  extractLocation returns the first entry of the gazetteer, in list
\* order, that occurs in the address whatever the letter case; when none
\* occurs it returns what extractDistrict returns for that address.
\* ---------------------------------------------------------------------
C13_LocationFallsBackToDistrict ==
    AddressDone
      => LET hits == {k \in 1..Len(locations) :
                        ContainsWord(input.value, toLowerCase(locations[k]))}
         IN  IF hits # {}
             THEN output.location = locations[CHOOSE k \in hits : \A j \in hits : k <= j]
             ELSE output.location = output.district

\* the district groups as the claim lists them
StatedDistrictGroups ==
    << <<"Cayo", {"cayo", "san ignacio", "santa elena", "benque", "bullet tree"}>>,
       <<"Stann Creek", {"stann", "placencia", "dangriga", "hopkins"}>>,
       <<"Corozal", {"corozal"}>>,
       <<"Orange Walk", {"orange walk"}>>,
       <<"Toledo", {"toledo"}>>,
       <<"Belize", {"san pedro", "ambergris", "caye caulker", "belize city", "ladyville"}>> >>

\* the same with 'punta gorda' among the keywords of Toledo
AmendedDistrictGroups ==
    [StatedDistrictGroups EXCEPT ![5] = <<"Toledo", {"toledo", "punta gorda"}>>]

\* ---------------------------------------------------------------------
\* C14 (as stated)  extractDistrict returns the district of the first group,
\* in the order Cayo, Stann Creek, Corozal, Orange Walk, Toledo, Belize, one
\* of whose keywords the lower-cased address contains, Toledo having the one
\* keyword 'toledo'; for an empty address or one without keyword it returns
\* 'Belize', never 'Unknown'.
\* ---------------------------------------------------------------------
C14_DistrictGroupsStated ==
    AddressDone
      => /\ output.district = FirstGroup(StatedDistrictGroups, input.value, "Belize")
         /\ output.district # "Unknown"

\* ---------------------------------------------------------------------
\* C14 (amended)  The same, the keywords of Toledo being 'toledo' and
\* 'punta gorda'.
\* ---------------------------------------------------------------------
C14_DistrictGroups ==
    AddressDone
      => /\ output.district = FirstGroup(AmendedDistrictGroups, input.value, "Belize")
         /\ output.district # "Unknown"

\* an address naming Toledo first and Placencia second is in Stann Creek
C14_Witness ==
    /\ AddressDone
    /\ input.value = "Toledo Rd, Placencia, Belize C.A."
    /\ output.district = "Stann Creek"

\* the category groups in their priority order
CategoryGroups ==
    << <<"Diving", {"dive", "scuba", "sea", "snork"}>>,
       <<"Mayan Tours", {"maya", "ruin", "archaeolog"}>>,
       <<"Adventure", {"adventure", "cave", "zip", "jungle"}>>,
       <<"Fishing", {"fish"}>>,
       <<"Resort", {"resort", "hotel", "lodge"}>>,
       <<"Rentals", {"rent", "golf cart"}>> >>

\* ---------------------------------------------------------------------
\* C15  categorizeOperator returns the category of the first group, in the
\* order Diving, Mayan Tours, Adventure, Fishing, Resort, Rentals, one of
\* whose keywords the lower-cased name contains, else 'General'; a name
\* containing 'dive' is 'Diving' even when it also contains 'resort'.
\* ---------------------------------------------------------------------
C15_CategoryPriority ==
    NameDone
      => /\ output.category = FirstGroup(CategoryGroups, input.value, "General")
         /\ ContainsWord(input.value, "dive") => output.category = "Diving"

\* a name with both 'dive' and 'resort' is Diving
C15_Witness ==
    /\ NameDone
    /\ input.value = "Dive Resort"
    /\ output.category = "Diving"

\* the extractor returned for a page, once or twice
RowsDone == output.kind = "rows"

\* a row the extractor must emit a record for
Qualifies(row) ==
    /\ Len(row) >= 4
    /\ trim(row[1]) # ""
    /\ trim(row[1]) # "Name"
    /\ ~Includes(trim(row[1]), "Company Name")

\* ---------------------------------------------------------------------
\* C16  The extractor emits one record, in row order, for exactly the rows
\* that have at least 4 cells and whose trimmed first cell is non-empty, is
\* not 'Name' and does not contain 'Company Name'; the other rows give no
\* record.
\* ---------------------------------------------------------------------
C16_RowsFiltered ==
    RowsDone
      => \A i \in 1..Len(output.results) :
           LET records == output.results[i]
               rows    == SelectSeq(input.value, Qualifies)
           IN  /\ Len(records) = Len(rows)
               /\ \A k \in 1..Len(rows) :
                    /\ records[k].name = trim(rows[k][1])
                    /\ records[k].phone = trim(rows[k][2])
                    /\ records[k].address.full = trim(rows[k][3])
                    /\ records[k].email = trim(rows[k][4])

\* a page of a three-cell row and a padded five-cell row gave the one record
\* of the second row
C16_Witness ==
    /\ RowsDone
    /\ Len(input.value) = 2
    /\ Len(input.value[1]) = 3
    /\ Len(output.results[1]) = 1
    /\ output.results[1][1].name = "Sea Dive Resort"

\* ---------------------------------------------------------------------
\* C17  Two extractions of the same rows give records that agree in every
\* field except rating (id, name, phone, address, email, website, district,
\* location, category, priceRange).
\* ---------------------------------------------------------------------
C17_OnlyRatingVaries ==
    (RowsDone /\ Len(output.results) = 2)
      => /\ Len(output.results[1]) = Len(output.results[2])
         /\ \A k \in 1..Len(output.results[1]) :
              [output.results[1][k] EXCEPT !.rating = ""]
                = [output.results[2][k] EXCEPT !.rating = ""]

\* the digit a one-character string stands for, -1 if it is no digit
DigitOf(c) == IndexFrom(Digits, c, 1) - 1

\* ---------------------------------------------------------------------
\* C18  generateRating returns a string of one digit, a point and one
\* decimal whose value in tenths is between 42 and 50 inclusive, for every
\* value of the random source in [0, 1).
\* ---------------------------------------------------------------------
C18_RatingRange ==
    RatingDone
      => /\ Len(output.rating) = 3
         /\ CharAt(output.rating, 2) = "."
         /\ DigitOf(CharAt(output.rating, 1)) >= 0
         /\ DigitOf(CharAt(output.rating, 3)) >= 0
         /\ LET v == 10 * DigitOf(CharAt(output.rating, 1)) + DigitOf(CharAt(output.rating, 3))
            IN  42 <= v /\ v <= 50

\* the largest value of the random source gave the top of the range
C18_Witness ==
    /\ RatingDone
    /\ input.value = 999
    /\ output.rating = "5.0"

\* ---------------------------------------------------------------------
\* C19  Every load scrapes afresh: each request to /api/operators makes the
\* server start a walk of the remote listing.
\* ---------------------------------------------------------------------
C19_EveryLoadScrapes ==
    [][\A h \in Reqs : Enters(h) => (pc'[h] = "get" /\ fetches'[h] = 1)]_vars

\* ---------------------------------------------------------------------
\* C20  In every walk that ends normally, what is returned holds the records
\* of every page whose fetch completed: as many pages are extracted as
\* fetches were made, also when the safety bound stops the walk.
\* ---------------------------------------------------------------------
C20_NoPageDropped ==
    \A h \in Reqs :
        (pc[h] = "responded" /\ res[h].status = 200 /\ res[h].cached = FALSE)
          => res[h].data \in WalkResults(fetches[h])

\* ---------------------------------------------------------------------
\* C21  Within one walk the fetches are sequential: one request at most is
\* outstanding, the POST for page n+1 is issued only once the response for
\* page n has been received and extracted, and it carries the __VIEWSTATE,
\* __VIEWSTATEGENERATOR and __EVENTVALIDATION of page n, never those of an
\* earlier page.
\* ---------------------------------------------------------------------
C21_SequentialFetches ==
    \A h \in Reqs :
        /\ pc[h] = "get" => (request[h].method = "GET" /\ fetches[h] = 1 /\ operators[h] = <<>>)
        /\ pc[h] = "post"
             => /\ request[h].method = "POST"
                /\ fetches[h] = pageCount[h] + 1
                /\ response[h].id = pageCount[h]
                /\ operators[h] \in WalkResults(pageCount[h])
                /\ request[h].form["__VIEWSTATE"] = "vs" \o ToString(pageCount[h])
                /\ request[h].form["__EVENTVALIDATION"] = "ev" \o ToString(pageCount[h])
                /\ request[h].form["__VIEWSTATEGENERATOR"]
                     = IF pageCount[h] = 2 THEN "undefined"
                       ELSE "gen" \o ToString(pageCount[h])
        /\ pc[h] \in {"idle", "responded"} => request[h].method = "NONE"

\* the POST for page 4 is outstanding and carries the tokens of page 3
C21_Witness ==
    /\ pc[1] = "post"
    /\ pageCount[1] = 3
    /\ fetches[1] = 4
    /\ request[1].form["__VIEWSTATE"] = "vs3"
    /\ request[1].form["__EVENTARGUMENT"] = "Page$4"

\* ---------------------------------------------------------------------
\* C22  The control followed from page n denotes page n+1: the event
\* argument of the k-th POST of a walk is that of page k+1, so the pages
\* requested are 1, 2, 3, ... without gap or repetition, whatever pager
\* links a page carries (links to pages 2 and 20 together, for instance).
\* ---------------------------------------------------------------------
C22_PagesConsecutive ==
    \A h \in Reqs :
        pc[h] = "post"
          => /\ request[h].form["__EVENTARGUMENT"] = "Page$" \o ToString(fetches[h])
             /\ RequestedPage(request[h]) = fetches[h]

\* the names the form is built with before the page's inputs are iterated
FormFieldNames ==
    {"__EVENTTARGET", "__EVENTARGUMENT", "__VIEWSTATE", "__VIEWSTATEGENERATOR",
     "__EVENTVALIDATION"}

\* the value of the first input called name that satisfies Wanted, else otherwise
FirstValue(inputs, name, Wanted(_), otherwise) ==
    LET hits == {i \in 1..Len(inputs) : inputs[i][1] = name /\ Wanted(inputs[i][2])}
    IN  IF hits = {} THEN otherwise
        ELSE inputs[CHOOSE i \in hits : \A j \in hits : i <= j][2]

AnyValue(v) == TRUE

NonEmpty(v) == v # ""

\* ---------------------------------------------------------------------
\* C23  The form posted for the next page holds __EVENTTARGET and
\* __EVENTARGUMENT equal to the pair of the next-page link, the three tokens
\* of the current page, and one entry for every other named input of the
\* page; the page's inputs never overwrite __EVENTTARGET, __EVENTARGUMENT,
\* __VIEWSTATE or __EVENTVALIDATION, and of several inputs of one name the
\* first non-empty value is kept.
\* ---------------------------------------------------------------------
C23_FormContents ==
    \A h \in Reqs :
        pc[h] = "post"
          => LET form   == request[h].form
                 inputs == Inputs(response[h].id)
                 named  == {inputs[i][1] : i \in 1..Len(inputs)} \ {""}
             IN  /\ DOMAIN form = FormFieldNames \cup named
                 /\ response[h].anchors
                      = <<"javascript:__doPostBack('" \o form["__EVENTTARGET"] \o "','"
                            \o form["__EVENTARGUMENT"] \o "')">>
                 /\ form["__EVENTARGUMENT"] = "Page$" \o ToString(pageCount[h] + 1)
                 /\ \A name \in {"__VIEWSTATE", "__VIEWSTATEGENERATOR", "__EVENTVALIDATION"} :
                      form[name] = FirstValue(inputs, name, AnyValue, "undefined")
                 /\ \A name \in named \ FormFieldNames :
                      form[name] = FirstValue(inputs, name, NonEmpty, "")

\* the form posted from page 1, whose inputs hold an empty __EVENTTARGET and
\* the values '', 'tour', 'dive' under one name
C23_Witness ==
    /\ pc[1] = "post"
    /\ response[1].id = 1
    /\ request[1].form["__EVENTTARGET"] = "ctl00$Grid"
    /\ request[1].form["ctl00$q"] = "tour"
    /\ request[1].form["ctl00$btn"] = "Search"

\* in this step handler h receives the response to its outstanding request
Receives(h) ==
    /\ Walking(h)
    /\ thrown'[h] = ""
    /\ response'[h].id # 0
    /\ (pc'[h] = "responded" \/ fetches'[h] = fetches[h] + 1)

\* the name=value pairs of the Set-Cookie lines the remote sends with page id
SentCookiePairs(id) ==
    IF id = 1 THEN "ASP.NET_SessionId=s1; lang=en"
    ELSE "ASP.NET_SessionId=s" \o ToString(id)

\* ---------------------------------------------------------------------
\* C24  Cookie carry-forward: a walk starts without cookies; a response
\* without Set-Cookie leaves the cookie string as it was, a response with
\* Set-Cookie replaces it wholesale by the pairs it sets, and every POST is
\* sent with the cookie string as it then stands.
\* ---------------------------------------------------------------------
C24_CookieCarryForward ==
    [][\A h \in Reqs :
         /\ (Enters(h) /\ pc'[h] = "get") => cookies'[h] = <<>>
         /\ Receives(h)
              => /\ response'[h].setCookie = <<>> => cookies'[h] = cookies[h]
                 /\ response'[h].setCookie # <<>>
                      => cookies'[h] = <<SentCookiePairs(response'[h].id)>>
                 /\ pc'[h] = "post" => request'[h].cookie = cookies'[h]]_vars

\* page 3 came without Set-Cookie: the POST for page 4 carries the cookie page
\* 2 had set in place of that of page 1
C24_Witness ==
    /\ pc[1] = "post"
    /\ response[1].id = 3
    /\ response[1].setCookie = <<>>
    /\ cookies[1] = <<"ASP.NET_SessionId=s2">>
    /\ request[1].cookie = <<"ASP.NET_SessionId=s2">>

\* the pagination session of the walk of handler h: accumulator, page
\* counter, cookie string, the page held with its tokens, the request awaited
Session(h) == <<operators[h], pageCount[h], cookies[h], response[h], request[h]>>

\* ---------------------------------------------------------------------
\* C25  The pagination session is private to one walk: every walk starts
\* with no cookies, page counter 1 and an empty accumulator, and a step
\* changes the session of at most one walk, which is a walk of the handler
\* taking that step; walks that overlap or follow one another never write
\* each other's session.
\* ---------------------------------------------------------------------
C25_SessionPrivate ==
    [][\A h \in Reqs :
         /\ (Enters(h) /\ pc'[h] = "get")
              => (cookies'[h] = <<>> /\ pageCount'[h] = 1 /\ operators'[h] = <<>>)
         /\ Session(h)' # Session(h)
              => /\ pc[h] # "idle" \/ Enters(h)
                 /\ pc'[h] # pc[h] \/ fetches'[h] # fetches[h]
                 /\ \A g \in Reqs \ {h} : Session(g)' = Session(g) /\ pc'[g] = pc[g]]_vars

\* two walks overlap, one two pages in with its cookie, the other just started
C25_Witness ==
    \E h, g \in Reqs :
        /\ pc[h] = "post" /\ cookies[h] # <<>> /\ Len(operators[h]) = 1
        /\ pc[g] = "get" /\ cookies[g] = <<>> /\ operators[g] = <<>> /\ pageCount[g] = 1

\* the price groups in their priority order
PriceGroups ==
    << <<"$$$", {"luxury", "resort", "heli", "private"}>>,
       <<"$$", {"dive", "adventure"}>> >>

\* ---------------------------------------------------------------------
\* C26  estimatePriceRange returns '$$$' for every name containing luxury,
\* resort, heli or private in any letter case, even when it also contains
\* dive or adventure; otherwise '$$' for a name containing dive or
\* adventure; otherwise '$'.
\* ---------------------------------------------------------------------
C26_PriceRange ==
    NameDone
      => /\ output.priceRange = FirstGroup(PriceGroups, input.value, "$")
         /\ (\E w \in {"luxury", "resort", "heli", "private"} : ContainsWord(input.value, w))
              => output.priceRange = "$$$"

\* a name with both 'dive' and 'resort' is in the top tier
C26_Witness ==
    /\ NameDone
    /\ input.value = "Dive Resort"
    /\ output.priceRange = "$$$"

\* ---------------------------------------------------------------------
\* C27  A qualifying row of exactly 4 cells, without website column, gives a
\* record whose website is the empty string, and the rows after it are
\* extracted as usual.
\* ---------------------------------------------------------------------
C27_MissingWebsite ==
    RowsDone
      => \A i \in 1..Len(output.results) :
           LET records == output.results[i]
               rows    == SelectSeq(input.value, Qualifies)
           IN  /\ Len(records) = Len(rows)
               /\ \A k \in 1..Len(rows) :
                    /\ records[k].name = trim(rows[k][1])
                    /\ records[k].website = IF Len(rows[k]) = 4 THEN "" ELSE trim(rows[k][5])

\* a four-cell row gave a record without website and the five-cell row after
\* it gave its record
C27_Witness ==
    /\ RowsDone
    /\ Len(input.value) = 2
    /\ Len(input.value[1]) = 4
    /\ Len(output.results[1]) = 2
    /\ output.results[1][1].website = ""
    /\ output.results[1][2].name = "Sea Dive Resort"
    /\ output.results[1][2].website = "x.bz"

Districts == {"Belize", "Cayo", "Orange Walk", "Corozal", "Stann Creek", "Toledo"}

Categories == {"Diving", "Mayan Tours", "Adventure", "Fishing", "Resort", "Rentals", "General"}

PriceTiers == {"$", "$$", "$$$"}

\* ---------------------------------------------------------------------
\* C28  Record invariant: every record has a non-empty name, a district among
\* Belize, Cayo, Orange Walk, Corozal, Stann Creek, Toledo, address.district
\* equal to district, a category among the seven categories and a priceRange
\* among $, $$, $$$; the helpers return nothing else for any address or name.
\* ---------------------------------------------------------------------
C28_RecordInvariant ==
    /\ RowsDone
         => \A i \in 1..Len(output.results) : \A k \in 1..Len(output.results[i]) :
              LET record == output.results[i][k]
              IN  /\ record.name # ""
                  /\ record.district \in Districts
                  /\ record.address.district = record.district
                  /\ record.category \in Categories
                  /\ record.priceRange \in PriceTiers
    /\ AddressDone => output.district \in Districts
    /\ NameDone => (output.category \in Categories /\ output.priceRange \in PriceTiers)

\* a page gave two records, of different districts and categories
C28_Witness ==
    /\ RowsDone
    /\ Len(output.results[1]) = 2
    /\ output.results[1][1].district = "Belize"
    /\ output.results[1][1].category = "Diving"
    /\ output.results[1][2].district = "Cayo"
    /\ output.results[1][2].priceRange = "$"

\* the pages the walk of handler h has extracted: every listing page carries
\* one operator
PagesExtracted(h) == Len(operators[h])

\* ---------------------------------------------------------------------
\* C29  Every walk terminates: when every fetch eventually returns or fails,
\* a walk reaches its end, by return or by failure, and it never issues more
\* than 16 requests (1 GET and 15 POSTs) nor extracts more than 15 pages,
\* whatever the remote serves.
\* ---------------------------------------------------------------------
C29_WalkTerminates ==
    /\ [](\A h \in Reqs :
            /\ fetches[h] <= SAFETY_LIMIT + 1
            /\ PagesExtracted(h) <= SAFETY_LIMIT
            /\ AnsweredWalk(h) => Len(res[h].data) <= SAFETY_LIMIT)
    /\ \A h \in Reqs : Walking(h) ~> ~Walking(h)

\* a walk over a long listing returned after its sixteenth request with the
\* operators of fifteen pages
C29_Witness ==
    /\ AnsweredWalk(1)
    /\ fetches[1] = SAFETY_LIMIT + 1
    /\ pageCount[1] = SAFETY_LIMIT + 1
    /\ Len(res[1].data) = SAFETY_LIMIT

\* ---------------------------------------------------------------------
\* C30  The cache's data and timestamp are written together in one step: no
\* handler can see the new cachedOperators with the old lastCacheTime or the
\* new lastCacheTime with the old cachedOperators; cachedOperators is
\* non-null exactly when lastCacheTime > 0, and lastCacheTime never
\* decreases.
\* ---------------------------------------------------------------------
C30_CacheWrittenTogether ==
    /\ [](cachedOperators # NULL <=> lastCacheTime > 0)
    /\ [][/\ lastCacheTime' >= lastCacheTime
          /\ cacheVars' # cacheVars
               => \E h \in Reqs :
                    /\ ReturnsNow(h)
                    /\ cachedOperators' = <<res'[h].data>>
                    /\ lastCacheTime' = now']_vars

\* two overlapping walks have both returned: the entry holds the result of one
\* of them and its time of return, later than the start
C30_Witness ==
    \E h \in Reqs :
        /\ AnsweredWalk(h)
        /\ \E g \in Reqs \ {h} : AnsweredWalk(g)
        /\ cachedOperators = <<res[h].data>>
        /\ lastCacheTime = now
        /\ lastCacheTime > StartTime

\* ---------------------------------------------------------------------
\* C31  When two walks overlap, each walk that succeeds writes the cache in
\* the step it returns: the entry then holds that walk's result and time of
\* return, whichever walk started first and whatever the other walk wrote
\* before; every caller is answered the result of its own walk with
\* cached = false, and the answer another caller already has is not touched.
\* ---------------------------------------------------------------------
C31_LastFinisherWins ==
    [][\A h \in Reqs : \A g \in Reqs \ {h} :
         (ReturnsNow(h) /\ (Walking(g) \/ AnsweredWalk(g)))
           => /\ cachedOperators' = <<res'[h].data>>
              /\ lastCacheTime' = now'
              /\ res'[h].status = 200
              /\ res'[h].cached = FALSE
              /\ res'[h].count = fetches[h]
              /\ res'[h].data \in WalkResults(fetches[h])
              /\ res'[g] = res[g]
              /\ operators'[g] = operators[g]
              /\ pc'[g] = pc[g]]_vars

\* two overlapping walks returned different results: both callers hold their
\* own, and the entry is the shorter one, written last
C31_Witness ==
    \E h, g \in Reqs :
        /\ AnsweredWalk(h) /\ AnsweredWalk(g)
        /\ Len(res[h].data) = 1 /\ Len(res[g].data) = 2
        /\ cachedOperators = <<res[h].data>>
        /\ lastCacheTime = now
        /\ now > StartTime

\* ---------------------------------------------------------------------
\* C32  A walk that returns no record is cached like any other: the empty
\* collection is stored with the current time, and a call entered while that
\* entry is less than an hour old is answered from it, with count = 0 and
\* cached = true, without a request to the remote.
\* ---------------------------------------------------------------------
C32_EmptyResultCached ==
    [][\A h \in Reqs :
         /\ (ReturnsNow(h) /\ operators'[h] = <<>>)
              => /\ cachedOperators' = <<<<>>>>
                 /\ lastCacheTime' = now'
                 /\ res'[h].count = 0
                 /\ res'[h].cached = FALSE
         /\ (Enters(h) /\ cachedOperators = <<<<>>>> /\ now - lastCacheTime < CACHE_DURATION)
              => /\ pc'[h] = "responded"
                 /\ res'[h].status = 200
                 /\ res'[h].count = 0
                 /\ res'[h].data = <<>>
                 /\ res'[h].cached = TRUE
                 /\ request' = request
                 /\ fetches' = fetches
                 /\ cacheVars' = cacheVars]_vars

\* an empty entry, written when the clock started, answers a call just before
\* it is an hour old
C32_Witness ==
    /\ AnsweredCache(1)
    /\ res[1].count = 0
    /\ cachedOperators = <<<<>>>>
    /\ lastCacheTime = StartTime
    /\ now = StartTime + CACHE_DURATION - 1
    /\ fetches[1] = 0

\* ---------------------------------------------------------------------
\* C33  Home page recovery: once a fetch of /api/operators has succeeded, the
\* error state is null, so a success that follows a failure (by 'Try Again')
\* leaves the error view for the operator list.
\* ---------------------------------------------------------------------
C33_ErrorCleared == effects.settled = "success" => home.error = NULL

\* a call of fetchLiveData settles in this step after a request
Settles(c) == calls[c].at = "fetch" /\ calls'[c].at = "returned"

\* the answer a settled call got is a success with a non-empty data array
GotLiveData(answer) ==
    /\ answer.success
    /\ "data" \in DOMAIN answer
    /\ answer.data # <<>>

C35_SanPedroWithinBelize ==
    /\ state.filters.location \in {"all", "San Pedro"}
    /\ state.filters.location = "San Pedro" => state.filters.district = "Belize"

\* ---------------------------------------------------------------------
\* C36  Prototype filter state: a click on a category chip (any chip but
\* 'cayo' and 'sanpedro', 'All Operators' included) while the location filter
\* is 'San Pedro' sets the location and district filters to 'all' and the
\* category to the chip's, so that the list is filtered by category only.
\* ---------------------------------------------------------------------
C36_CategoryChipResetsLocation ==
    [][(/\ state.filters.location = "San Pedro"
        /\ elements'.activeChip # elements.activeChip
        /\ elements'.activeChip \notin {"cayo", "sanpedro"})
         => /\ state'.filters.location = "all"
            /\ state'.filters.district = "all"
            /\ state'.filters.category = elements'.activeChip]_vars

====
